---------------------------- MODULE Spec2Model ----------------------------
(***************************************************************************)
(* Model of the multi-stock data pipeline of this repository.              *)
(*                                                                         *)
(* The repository holds two applications, each with its own DataLoader:    *)
(*   StockPredictorApp  (src/unnamed/part_000:180) uses the DataLoader of  *)
(*       src/data-loader.js: loadCSV, then prepareData;                    *)
(*   StockPredictionApp (src/app.js:12) uses the DataLoader of             *)
(*       src/unnamed/part_000:12: loadCSV (parseAndPivot, computeMinMax),  *)
(*       then createSequences.                                             *)
(* A behaviour is a run of one of the two pages; SpecApp, at the end, is   *)
(* the one in which the user picks one CSV file after the other.           *)
(*                                                                         *)
(* JavaScript arrays are sequences; At(a, i) reads the source's 0-based    *)
(* index i.  Dates are ISO date strings in the source, whose default sort  *)
(* is chronological; they are modelled by the integers 1, 2, ... .         *)
(* JavaScript values are records: a number n/d (exact, d > 0), NaN, null   *)
(* or undefined.  Floating point rounding is not modelled.                 *)
(***************************************************************************)
EXTENDS Integers, Sequences, FiniteSets, TLC

VARIABLES
    app,            \* which page is running
    file,           \* the CSV file the user picked: its data rows, in order
    rawData,        \* src/data-loader.js DataLoader.rawData (null until loaded)
    processedData,  \* src/data-loader.js DataLoader.processedData
    dateIndex,      \* src/data-loader.js DataLoader.dateIndex
    rawCSV,         \* part_000 DataLoader.rawCSV
    pivot,          \* part_000 DataLoader.pivot
    dates,          \* part_000 DataLoader.dates
    minMax,         \* part_000 DataLoader.minMax
    symbols,        \* DataLoader.symbols (both loaders)
    X_train,        \* DataLoader.X_train (both loaders), null until built
    y_train,
    X_test,
    y_test,
    params,         \* history: look-back, horizon and date axis length of
                    \* the last window build
    emitted,        \* history: anchor index i of every samples.push / X.push
                    \* of the last window build, in push order
    error,          \* message of the Error the last prepareData /
                    \* createSequences call threw, or "none"
    predictions,    \* the tensor model.predict(X_test) returned, null before
    stockAccuracies,\* part_000 evaluateModel: result of computePerStockAccuracy
    timeline,       \* part_000 evaluateModel: result of getPredictionTimeline
    currentEval,    \* app.js StockPredictionApp.currentEval
    uiState,        \* part_000 StockPredictorApp: the state last passed to
                    \* updateUIState, which sets the four buttons
    isTraining,     \* src/app.js GRUModel.isTraining
    fits,           \* the model.fit calls in flight, oldest first: the epochs
                    \* each has completed and (history) the number it had
                    \* completed when stopTraining was called, -1 if it was not
    returned,       \* history: the fit whose train call returned last
    disabled        \* src/app.js StockPredictionApp: the disabled property of
                    \* the page's trainBtn and predictBtn

\* training of the StockPredictorApp page
trainVars == << uiState, isTraining, fits, returned, disabled >>

\* the state outside the DataLoader: the model's output and the page's results
modelVars == << predictions, stockAccuracies, timeline, currentEval, trainVars >>

vars == << app, file, rawData, processedData, dateIndex, rawCSV, pivot, dates,
           minMax, symbols, X_train, y_train, X_test, y_test, params, emitted,
           error, predictions, stockAccuracies, timeline, currentEval,
           uiState, isTraining, fits, returned, disabled >>

-----------------------------------------------------------------------------
(* Bounds of the model *)

MaxDates == 18      \* most distinct dates in a file
MaxVal == 1         \* prices in the varied cells are 0..MaxVal

-----------------------------------------------------------------------------
(* JavaScript values *)

Num(v) == [k |-> "num", n |-> v, d |-> 1]
Frac(a, b) == [k |-> "num", n |-> a, d |-> b]
NULL == [k |-> "null", n |-> 0, d |-> 1]
NAN == [k |-> "nan", n |-> 0, d |-> 1]
UNDEFINED == [k |-> "undefined", n |-> 0, d |-> 1]
EMPTY == [k |-> "empty", n |-> 0, d |-> 1]      \* an empty CSV cell (text)
POS_INFINITY == [k |-> "inf", n |-> 1, d |-> 1]
NEG_INFINITY == [k |-> "inf", n |-> -1, d |-> 1]

IsNum(x) == x.k = "num"

\* a > b in JavaScript: both operands go through ToNumber (null -> 0,
\* undefined -> NaN) and any comparison with NaN is false.
ToNumber(x) == IF x.k = "null" THEN Num(0)
               ELSE IF x.k = "undefined" THEN NAN
               ELSE x

Gt(a, b) ==
    LET x == ToNumber(a)
        y == ToNumber(b)
    IN  /\ IsNum(x)
        /\ IsNum(y)
        /\ x.n * y.d > y.n * x.d

\* a - b and a / b on the values the loaders meet (numbers and NaN)
Sub(a, b) == IF IsNum(a) /\ IsNum(b) /\ a.d = 1 /\ b.d = 1
             THEN Num(a.n - b.n) ELSE NAN

Div(a, b) == IF ~(IsNum(a) /\ IsNum(b)) THEN NAN
             ELSE IF b.n = 0 THEN NAN      \* only 0/0 arises: a = val - min = 0
             ELSE Frac(a.n, b.n)

\* a[i] of a JavaScript array: undefined outside the array
At(a, i) == IF (i + 1) \in DOMAIN a THEN a[i + 1] ELSE UNDEFINED

\* An array and an object built once: TLC keeps a function constructor as a
\* closure and would evaluate its body again at every application.
Arr(f) == << >> \o f
Obj(f) == f @@ << >>

Range(s) == { s[i] : i \in DOMAIN s }

SetMin(S) == CHOOSE x \in S : \A y \in S : x <= y
SetMax(S) == CHOOSE x \in S : \A y \in S : x >= y

RECURSIVE SortAsc(_)
SortAsc(S) == IF S = {} THEN << >>
              ELSE LET m == SetMin(S) IN << m >> \o SortAsc(S \ {m})

RECURSIVE Flatten(_)
Flatten(ss) == IF ss = << >> THEN << >> ELSE Head(ss) \o Flatten(Tail(ss))

\* [...new Set(seq)]: distinct elements in order of first appearance
RECURSIVE Uniq(_)
Uniq(s) == IF s = << >> THEN << >>
           ELSE LET r == Uniq(SubSeq(s, 1, Len(s) - 1))
                    x == s[Len(s)]
                IN  IF x \in Range(r) THEN r ELSE Append(r, x)


-----------------------------------------------------------------------------
(* Program constants *)

WINDOW_SIZE == 12
PREDICTION_DAYS == 3

-----------------------------------------------------------------------------
(* The CSV files of the model.  A file is its sequence of data rows        *)
(* (Date, Symbol, Open, Close), cells still text: a number or empty.  Two  *)
(* tickers; ticker A's cells vary on the date of the first anchor of a     *)
(* 12-day window, ticker B's prices cycle and B may lack rows: on the      *)
(* first date (lead), and on the gapB dates after the 12th.                *)

VaryDates == { WINDOW_SIZE + 1 }
Cells == { EMPTY } \cup { Num(v) : v \in 0..MaxVal }

Scenarios ==
    [ n : (WINDOW_SIZE + PREDICTION_DAYS)..MaxDates,
      pa : [VaryDates -> Cells],
      lead : {0, 1},
      gapB : {0, 1, 2},
      openFlat : BOOLEAN,
      ord : { << "A", "B" >>, << "B", "A" >> } ]

CloseCell(sc, sym, date) ==
    IF sym = "A"
    THEN IF date \in VaryDates THEN sc.pa[date] ELSE Num(1)
    ELSE Num(date % 3)

HasRow(sc, sym, date) ==
    \/ sym = "A"
    \/ /\ date > sc.lead
       /\ ~(date > WINDOW_SIZE /\ date <= WINDOW_SIZE + sc.gapB)

RowOf(sc, sym, date) ==
    [ Date |-> date, Symbol |-> sym,
      Open |-> IF sc.openFlat THEN Num(1) ELSE CloseCell(sc, sym, date),
      Close |-> CloseCell(sc, sym, date) ]

RowsOfDate(sc, date) ==
    SelectSeq([ k \in 1..2 |-> RowOf(sc, sc.ord[k], date) ],
              LAMBDA r : HasRow(sc, r.Symbol, r.Date))

MkFile(sc) == Flatten(Arr([ date \in 1..sc.n |-> RowsOfDate(sc, date) ]))

Files == { MkFile(sc) : sc \in Scenarios }

\* every (date, ticker) of the file has a row and no cell is empty
HoleFree(f) ==
    /\ \A i \in DOMAIN f : IsNum(f[i].Open) /\ IsNum(f[i].Close)
    /\ \A dt \in { f[i].Date : i \in DOMAIN f } :
         \A s \in { f[i].Symbol : i \in DOMAIN f } :
           \E i \in DOMAIN f : f[i].Date = dt /\ f[i].Symbol = s

-----------------------------------------------------------------------------
(* src/data-loader.js: DataLoader.loadCSV                                  *)

\* Papa.parse with dynamicTyping: a numeric cell becomes a number, an
\* empty cell becomes null
DynamicTyping(cell) == IF cell.k = "empty" THEN NULL ELSE cell

PapaParse(f) ==
    Arr([ i \in DOMAIN f |->
            [ Date |-> f[i].Date, Symbol |-> f[i].Symbol,
              Open |-> DynamicTyping(f[i].Open),
              Close |-> DynamicTyping(f[i].Close) ] ])

\* results.data.filter(row => row.Date && row.Symbol)
FilterRows(rows) == SelectSeq(rows, LAMBDA r : r.Date # 0 /\ r.Symbol # "")

-----------------------------------------------------------------------------
(* src/data-loader.js: DataLoader.prepareData                              *)

\* [...new Set(rawData.map(row => row.Symbol))]
SymbolsOf(rows) == Uniq(Arr([ i \in DOMAIN rows |-> rows[i].Symbol ]))

\* [...new Set(rawData.map(row => row.Date))].sort()
AllDates(rows) == SortAsc({ rows[i].Date : i \in DOMAIN rows })

\* mutant: a slot once written is not overwritten, the first row wins
PivotFieldFirst(rows, allDates, symbol, field) ==
    Arr([ p \in DOMAIN allDates |->
            LET hits == { i \in DOMAIN rows :
                            rows[i].Date = allDates[p] /\ rows[i].Symbol = symbol }
            IN  IF hits = {} THEN NULL ELSE rows[SetMin(hits)][field] ])

\* the array pivotedData[symbol][field] after the forEach over rawData:
\* null, overwritten by every row of that (date, symbol), the last one wins
PivotField(rows, allDates, symbol, field) ==
    Arr([ p \in DOMAIN allDates |->
            LET hits == { i \in DOMAIN rows :
                            rows[i].Date = allDates[p] /\ rows[i].Symbol = symbol }
            IN  IF hits = {} THEN NULL ELSE rows[SetMax(hits)][field] ])

\* the forward-fill loop over one array, from index i with lastValue
RECURSIVE FillFrom(_, _, _)
FillFrom(arr, i, lastValue) ==
    IF i >= Len(arr) THEN arr
    ELSE IF At(arr, i) # NULL
         THEN FillFrom(arr, i + 1, At(arr, i))
         ELSE IF lastValue # NULL
              THEN FillFrom([arr EXCEPT ![i + 1] = lastValue], i + 1, lastValue)
              ELSE FillFrom(arr, i + 1, lastValue)

\* mutant: lastValue is set by the first value only and never updated
RECURSIVE FillStaleFrom(_, _, _)
FillStaleFrom(arr, i, lastValue) ==
    IF i >= Len(arr) THEN arr
    ELSE IF At(arr, i) # NULL
         THEN FillStaleFrom(arr, i + 1,
                            IF lastValue = NULL THEN At(arr, i) ELSE lastValue)
         ELSE IF lastValue # NULL
              THEN FillStaleFrom([arr EXCEPT ![i + 1] = lastValue], i + 1, lastValue)
              ELSE FillStaleFrom(arr, i + 1, lastValue)

ForwardFillStale(arr) == FillStaleFrom(arr, 0, NULL)

ForwardFill(arr) == FillFrom(arr, 0, NULL)

\* Math.min(...values) / Math.max(...values) over the non-null values;
\* the family's arrays always hold a number when they hold a non-null value
NonNull(arr) == { arr[p].n : p \in { q \in DOMAIN arr : arr[q] # NULL } }

\* normalizedData[symbol][field]
NormalizeField(arr) ==
    LET values == NonNull(arr)
        min == IF values = {} THEN POS_INFINITY ELSE Num(SetMin(values))
        max == IF values = {} THEN NEG_INFINITY ELSE Num(SetMax(values))
    IN  Arr([ p \in DOMAIN arr |->
                IF arr[p] # NULL
                THEN Div(Sub(arr[p], min), Sub(max, min))
                ELSE Num(0) ])

Fields == { "Open", "Close" }

\* pivotedData before and after the forward fill, and normalizedData
PivotedData(rows, syms, allDates) ==
    Obj([ s \in Range(syms) |->
            Obj([ f \in Fields |-> PivotField(rows, allDates, s, f) ]) ])

FilledData(pivoted) ==
    Obj([ s \in DOMAIN pivoted |->
            Obj([ f \in Fields |-> ForwardFill(pivoted[s][f]) ]) ])

NormalizedData(filled) ==
    Obj([ s \in DOMAIN filled |->
            Obj([ f \in Fields |-> NormalizeField(filled[s][f]) ]) ])

\* the values lo, lo + 1, ..., hi of a for loop, in order
LoopRange(lo, hi) == Arr([ t \in 1..(hi - lo + 1) |-> lo + t - 1 ])

\* arr.slice(from, to)
Slice(arr, from, to) == SubSeq(arr, from + 1, to)

\* timeStep for axis index j: Open then Close of every symbol, in symbols order
TimeStep(norm, syms, j) ==
    Flatten(Arr([ s \in DOMAIN syms |->
        << At(norm[syms[s]]["Open"], j), At(norm[syms[s]]["Close"], j) >> ]))

\* sample for loop index i: for (j = i - WINDOW_SIZE; j < i; j++)
SampleAt(norm, syms, i) ==
    Arr([ r \in 1..WINDOW_SIZE |->
            TimeStep(norm, syms, i - WINDOW_SIZE + (r - 1)) ])

\* label for loop index i: per symbol, per k in 0..PREDICTION_DAYS-1
LabelAt(norm, syms, i) ==
    Flatten(Arr([ s \in DOMAIN syms |->
        Arr([ k1 \in 1..PREDICTION_DAYS |->
            LET currentClose == At(norm[syms[s]]["Close"], i - 1)
                futureClose == At(norm[syms[s]]["Close"], i + (k1 - 1))
            IN  IF Gt(futureClose, currentClose) THEN 1 ELSE 0 ]) ]))

\* mutant: the loop bound written i <= allDates.length - PREDICTION_DAYS
PrepareAnchorsInclusive(n) == LoopRange(WINDOW_SIZE, n - PREDICTION_DAYS)

\* the loop indices of prepareData over an axis of n dates
PrepareAnchors(n) == LoopRange(WINDOW_SIZE, n - PREDICTION_DAYS - 1)

\* samples and labels; each element carries the loop index that pushed it
\* (a history field: the source keeps the same fact in dateIndex)
\* mutant: samples.unshift(sample) instead of samples.push(sample)
PrepareSamplesUnshift(norm, syms, anchors) ==
    Arr([ t \in DOMAIN anchors |->
            [ anchor |-> anchors[Len(anchors) + 1 - t],
              x |-> SampleAt(norm, syms, anchors[Len(anchors) + 1 - t]) ] ])

PrepareSamples(norm, syms, anchors) ==
    Arr([ t \in DOMAIN anchors |->
            [ anchor |-> anchors[t], x |-> SampleAt(norm, syms, anchors[t]) ] ])

PrepareLabels(norm, syms, anchors) ==
    Arr([ t \in DOMAIN anchors |->
            [ anchor |-> anchors[t], y |-> LabelAt(norm, syms, anchors[t]) ] ])

\* mutant: Math.ceil instead of Math.floor
SplitIndexCeil(len) == (len * 8 + 9) \div 10

\* Math.floor(samples.length * 0.8)
SplitIndex(len) == (len * 8) \div 10

\* a nullable field of an object
Nil == [ isNull |-> TRUE, data |-> << >> ]
Val(x) == [ isNull |-> FALSE, data |-> x ]

-----------------------------------------------------------------------------
(* src/unnamed/part_000: DataLoader.parseAndPivot, computeMinMax, norm     *)

Tickers == << "A", "B" >>       \* the tickers of the model, alphabetically

\* Array.from(symSet).sort()
SortSymbols(S) == SelectSeq(Tickers, LAMBDA s : s \in S)

\* parseFloat of a cell: an empty cell is NaN
ParseFloat(cell) == IF cell.k = "empty" THEN NAN ELSE cell

\* pivot: date -> symbol -> {Open, Close}; a later row of the same
\* (date, symbol) overwrites an earlier one
ParsePivot(f) ==
    Obj([ dt \in { f[i].Date : i \in DOMAIN f } |->
        Obj([ s \in { f[i].Symbol : i \in { j \in DOMAIN f : f[j].Date = dt } } |->
            LET last == SetMax({ i \in DOMAIN f :
                                   f[i].Date = dt /\ f[i].Symbol = s })
            IN  [ Open |-> ParseFloat(f[last].Open),
                  Close |-> ParseFloat(f[last].Close) ] ]) ])

\* Object.keys(pivot).sort()
PivotDates(pv) == SortAsc(DOMAIN pv)

PivotSymbols(f) == SortSymbols({ f[i].Symbol : i \in DOMAIN f })

\* (this.pivot[d] || {})[s]
HasPivotRow(pv, day, sym) == day \in DOMAIN pv /\ sym \in DOMAIN pv[day]

\* (this.pivot[d] || {})[s]?.Close, and the same for Open
PivotValue(pv, day, sym, field) ==
    IF HasPivotRow(pv, day, sym) THEN pv[day][sym][field] ELSE UNDEFINED

\* Math.min(a, b) and Math.max(a, b): NaN if either is NaN
MathMin(a, b) ==
    IF a.k = "nan" \/ b.k = "nan" THEN NAN
    ELSE IF a.k = "inf" THEN (IF a.n > 0 THEN b ELSE a)
    ELSE IF b.k = "inf" THEN (IF b.n > 0 THEN a ELSE b)
    ELSE IF a.n <= b.n THEN a ELSE b

MathMax(a, b) ==
    IF a.k = "nan" \/ b.k = "nan" THEN NAN
    ELSE IF a.k = "inf" THEN (IF a.n > 0 THEN a ELSE b)
    ELSE IF b.k = "inf" THEN (IF b.n > 0 THEN b ELSE a)
    ELSE IF a.n >= b.n THEN a ELSE b

\* the dates.forEach of computeMinMax for one symbol and field, from
\* index i with the running min and max
RECURSIVE MinMaxFrom(_, _, _, _, _, _)
MinMaxFrom(pv, ds, sym, field, i, acc) ==
    IF i >= Len(ds) THEN acc
    ELSE IF ~HasPivotRow(pv, At(ds, i), sym)
         THEN MinMaxFrom(pv, ds, sym, field, i + 1, acc)
         ELSE MinMaxFrom(pv, ds, sym, field, i + 1,
                [ min |-> MathMin(acc.min, pv[At(ds, i)][sym][field]),
                  max |-> MathMax(acc.max, pv[At(ds, i)][sym][field]) ])

ComputeMinMax(pv, ds, syms) ==
    Obj([ s \in Range(syms) |->
        Obj([ f \in Fields |->
            MinMaxFrom(pv, ds, s, f, 0,
                       [ min |-> POS_INFINITY, max |-> NEG_INFINITY ]) ]) ])

\* norm(val, min, max); NaN === NaN is false
norm(val, min, max) ==
    IF max = min /\ max.k # "nan" THEN Num(0)
    ELSE Div(Sub(val, min), Sub(max, min))

-----------------------------------------------------------------------------
(* src/unnamed/part_000: DataLoader.createSequences                        *)
(*                                                                         *)
(* Lines 112-128 of the source repeat the header of the anchor loop inside *)
(* itself and elide the body of the look-back loop ("...").  The model     *)
(* reads the anchor loop once; StepVec and StepOk stand for the elided     *)
(* body and follow the specification's section 4.4, step 1.                *)

\* the days of the look-back loop, in loop order:
\* for (j = inputLen - 1; j >= 0; j--) day = this.dates[i - j]
WindowDays(ds, i, inputLen) ==
    Arr([ r \in 1..inputLen |-> At(ds, i - (inputLen - r)) ])

\* elided body: the step vector of one day, normalised Open then Close of
\* every symbol in symbols order
StepVec(pv, syms, mm, day) ==
    Flatten(Arr([ s \in DOMAIN syms |->
        << norm(PivotValue(pv, day, syms[s], "Open"),
                mm[syms[s]]["Open"].min, mm[syms[s]]["Open"].max),
           norm(PivotValue(pv, day, syms[s], "Close"),
                mm[syms[s]]["Close"].min, mm[syms[s]]["Close"].max) >> ]))

\* elided body: ok stays true for a day on which every symbol has a row
StepOk(pv, syms, day) == \A s \in DOMAIN syms : HasPivotRow(pv, day, syms[s])

\* seq, and the ok flag after the look-back loop
SeqAt(pv, ds, syms, mm, i, inputLen) ==
    LET days == WindowDays(ds, i, inputLen)
    IN  Arr([ r \in DOMAIN days |-> StepVec(pv, syms, mm, days[r]) ])

WindowOk(pv, ds, syms, i, inputLen) ==
    LET days == WindowDays(ds, i, inputLen)
    IN  \A r \in DOMAIN days : StepOk(pv, syms, days[r])

\* baseClose[sym] = (this.pivot[currentDate] || {})[sym]?.Close, and
\* baseClose[sym] == null (true of null and of undefined) clears ok
BaseClose(pv, ds, sym, i) == PivotValue(pv, At(ds, i), sym, "Close")

BaseOk(pv, ds, syms, i) ==
    \A s \in DOMAIN syms :
        BaseClose(pv, ds, syms[s], i).k \notin { "null", "undefined" }

\* labels: for off = 1..outputLen, for every symbol, push futClose > base
LabelsAt(pv, ds, syms, i, outputLen) ==
    Flatten(Arr([ off \in 1..outputLen |->
        Arr([ s \in DOMAIN syms |->
            LET futClose == PivotValue(pv, At(ds, i + off), syms[s], "Close")
            IN  IF Gt(futClose, BaseClose(pv, ds, syms[s], i)) THEN 1 ELSE 0 ]) ]))

\* the loop indices of createSequences over an axis of n dates
SequenceAnchors(n, inputLen, outputLen) ==
    LoopRange(inputLen, n - outputLen - 1)

\* an anchor pushes a sample unless one of the three `continue`s is taken
PushesSample(pv, ds, syms, i, inputLen, outputLen) ==
    /\ WindowOk(pv, ds, syms, i, inputLen)
    /\ Len(WindowDays(ds, i, inputLen)) = inputLen
    /\ BaseOk(pv, ds, syms, i)
    /\ Len(LabelsAt(pv, ds, syms, i, outputLen)) = Len(syms) * outputLen

PushedAnchors(pv, ds, syms, inputLen, outputLen) ==
    SelectSeq(SequenceAnchors(Len(ds), inputLen, outputLen),
              LAMBDA i : PushesSample(pv, ds, syms, i, inputLen, outputLen))

\* X and y; each element carries the loop index that pushed it (history)
SequenceX(pv, ds, syms, mm, pushed, inputLen) ==
    Arr([ t \in DOMAIN pushed |->
            [ anchor |-> pushed[t],
              x |-> SeqAt(pv, ds, syms, mm, pushed[t], inputLen) ] ])

SequenceY(pv, ds, syms, pushed, outputLen) ==
    Arr([ t \in DOMAIN pushed |->
            [ anchor |-> pushed[t],
              y |-> LabelsAt(pv, ds, syms, pushed[t], outputLen) ] ])

InputLens == { 2, WINDOW_SIZE }
OutputLens == { 1, PREDICTION_DAYS }

-----------------------------------------------------------------------------
(* State machine *)

Apps == { "StockPredictorApp", "StockPredictionApp" }

\* a model.fit call: epochs completed, epochs completed at stopTraining
NoFit == [ epoch |-> 0, stoppedAt |-> -1 ]

\* both buttons of StockPredictionApp's page disabled
AllDisabled == [ trainBtn |-> TRUE, predictBtn |-> TRUE ]

NoParams == [ lookback |-> 0, horizon |-> 0, axis |-> 0 ]

Init ==
    /\ app \in Apps
    /\ file \in Files
    /\ rawData = Nil
    /\ processedData = Nil
    /\ dateIndex = << >>
    /\ rawCSV = Nil
    /\ pivot = Nil
    /\ dates = << >>
    /\ minMax = << >>
    /\ symbols = << >>
    /\ X_train = Nil
    /\ y_train = Nil
    /\ X_test = Nil
    /\ y_test = Nil
    /\ params = NoParams
    /\ emitted = << >>
    /\ error = "none"
    /\ predictions = Nil
    /\ stockAccuracies = Nil
    /\ timeline = Nil
    /\ currentEval = Nil
    /\ uiState = "initial"
    /\ isTraining = FALSE
    /\ fits = << >>
    /\ returned = NoFit
    /\ disabled = AllDisabled

\* src/data-loader.js loadCSV: Papa.parse completes and resolves
LoadCSV ==
    /\ app = "StockPredictorApp"
    /\ rawData' = Val(FilterRows(PapaParse(file)))
    /\ UNCHANGED << app, file, processedData, dateIndex, rawCSV, pivot, dates,
                    minMax, symbols, X_train, y_train, X_test, y_test, params,
                    emitted, error >>
    /\ UNCHANGED modelVars

\* everything prepareData computes before it builds the tensors
Prepared(rows) ==
    LET syms == SymbolsOf(rows)
        allDates == AllDates(rows)
        pivotedData == PivotedData(rows, syms, allDates)
        filledData == FilledData(pivotedData)
        normalizedData == NormalizedData(filledData)
        anchors == PrepareAnchors(Len(allDates))
        samples == PrepareSamples(normalizedData, syms, anchors)
    IN  [ symbols |-> syms,
          axis |-> Len(allDates),
          pivotedData |-> pivotedData,
          filledData |-> filledData,
          normalizedData |-> normalizedData,
          samples |-> samples,
          labels |-> PrepareLabels(normalizedData, syms, anchors),
          dateIndex |-> Arr([ t \in DOMAIN samples |->
                                  At(allDates, samples[t].anchor) ]),
          emitted |-> Arr([ t \in DOMAIN samples |-> samples[t].anchor ]),
          splitIndex |-> SplitIndex(Len(samples)) ]

\* src/data-loader.js prepareData.  tf.tensor3d / tf.tensor2d belong to the
\* tensor library: whether it accepts an empty array (emptyOk) or throws is
\* not decided by this repository.
PrepareData ==
    /\ app = "StockPredictorApp"
    /\ IF rawData.isNull \/ Len(rawData.data) = 0
       THEN /\ error' = "No data loaded"
            /\ UNCHANGED << symbols, dateIndex, X_train, y_train, X_test,
                            y_test, processedData, params, emitted >>
       ELSE \E p \in { Prepared(rawData.data) } :
                /\ symbols' = p.symbols
                /\ dateIndex' = p.dateIndex
                /\ emitted' = p.emitted
                /\ params' = [ lookback |-> WINDOW_SIZE,
                               horizon |-> PREDICTION_DAYS,
                               axis |-> p.axis ]
                /\ \E emptyOk \in IF p.splitIndex = 0 THEN BOOLEAN ELSE { TRUE } :
                     IF ~emptyOk
                     THEN /\ error' = "tensor3d"
                          /\ UNCHANGED << X_train, y_train, X_test, y_test,
                                          processedData >>
                     ELSE /\ X_train' = Val(Slice(p.samples, 0, p.splitIndex))
                          /\ y_train' = Val(Slice(p.labels, 0, p.splitIndex))
                          /\ X_test' = Val(Slice(p.samples, p.splitIndex,
                                                 Len(p.samples)))
                          /\ y_test' = Val(Slice(p.labels, p.splitIndex,
                                                 Len(p.labels)))
                          /\ processedData' = Val(p.normalizedData)
                          /\ error' = "none"
    /\ UNCHANGED << app, file, rawData, rawCSV, pivot, dates, minMax >>
    /\ UNCHANGED modelVars

\* everything loadCSV of part_000 stores
Pivoted(f) ==
    LET pv == ParsePivot(f)
        ds == PivotDates(pv)
        syms == PivotSymbols(f)
    IN  [ pivot |-> pv, dates |-> ds, symbols |-> syms,
          minMax |-> ComputeMinMax(pv, ds, syms) ]

\* part_000 loadCSV: reader.onload runs parseAndPivot and computeMinMax.
\* A file without data rows has the header line only: parseAndPivot throws
\* 'CSV too short' after rawCSV is stored, and loadCSV rejects.
LoadAndPivot ==
    /\ app = "StockPredictionApp"
    /\ rawCSV' = Val(file)
    /\ IF Len(file) = 0
       THEN UNCHANGED << pivot, dates, symbols, minMax >>
       ELSE \E p \in { Pivoted(file) } :
              /\ pivot' = Val(p.pivot)
              /\ dates' = p.dates
              /\ symbols' = p.symbols
              /\ minMax' = p.minMax
    /\ UNCHANGED << app, file, rawData, processedData, dateIndex, X_train,
                    y_train, X_test, y_test, params, emitted, error >>
    /\ UNCHANGED modelVars

\* everything createSequences computes before it builds the tensors
Sequenced(pv, ds, syms, mm, inputLen, outputLen) ==
    LET pushed == PushedAnchors(pv, ds, syms, inputLen, outputLen)
    IN  [ X |-> SequenceX(pv, ds, syms, mm, pushed, inputLen),
          y |-> SequenceY(pv, ds, syms, pushed, outputLen),
          pushed |-> pushed,
          split |-> SplitIndex(Len(pushed)) ]

\* mutant: createSequences refits the scale, this.minMax = {} at its start
CreateSequencesRefit ==
    /\ app = "StockPredictionApp"
    /\ \E inputLen \in InputLens, outputLen \in OutputLens :
       \E q \in { Sequenced(pivot.data, dates, symbols, minMax,
                            inputLen, outputLen) } :
             /\ params' = [ lookback |-> inputLen, horizon |-> outputLen,
                            axis |-> Len(dates) ]
             /\ emitted' = q.pushed
             /\ IF Len(q.X) = 0
                THEN /\ error' = "No valid sequences generated"
                     /\ UNCHANGED << X_train, y_train, X_test, y_test >>
                ELSE /\ X_train' = Val(Slice(q.X, 0, q.split))
                     /\ y_train' = Val(Slice(q.y, 0, q.split))
                     /\ X_test' = Val(Slice(q.X, q.split, Len(q.X)))
                     /\ y_test' = Val(Slice(q.y, q.split, Len(q.y)))
                     /\ error' = "none"
    /\ minMax' = << >>
    /\ UNCHANGED << app, file, rawData, processedData, dateIndex, rawCSV,
                    pivot, dates, symbols >>
    /\ UNCHANGED modelVars

\* part_000 createSequences(inputLen, outputLen)
CreateSequences ==
    /\ app = "StockPredictionApp"
    /\ \E inputLen \in InputLens, outputLen \in OutputLens :
       \E q \in { Sequenced(pivot.data, dates, symbols, minMax,
                            inputLen, outputLen) } :
             /\ params' = [ lookback |-> inputLen, horizon |-> outputLen,
                            axis |-> Len(dates) ]
             /\ emitted' = q.pushed
             /\ IF Len(q.X) = 0
                THEN /\ error' = "No valid sequences generated"
                     /\ UNCHANGED << X_train, y_train, X_test, y_test >>
                ELSE \E emptyOk \in IF q.split = 0 THEN BOOLEAN ELSE { TRUE } :
                       IF ~emptyOk
                       THEN /\ error' = "tensor3d"
                            /\ UNCHANGED << X_train, y_train, X_test, y_test >>
                       ELSE /\ X_train' = Val(Slice(q.X, 0, q.split))
                            /\ y_train' = Val(Slice(q.y, 0, q.split))
                            /\ X_test' = Val(Slice(q.X, q.split, Len(q.X)))
                            /\ y_test' = Val(Slice(q.y, q.split, Len(q.y)))
                            /\ error' = "none"
    /\ UNCHANGED << app, file, rawData, processedData, dateIndex, rawCSV,
                    pivot, dates, minMax, symbols >>
    /\ UNCHANGED modelVars

Next ==
    \/ LoadCSV
    \/ PrepareData
    \/ LoadAndPivot
    \/ CreateSequences

Spec == Init /\ [][Next]_vars

-----------------------------------------------------------------------------
(* What the claims speak of, read from the state *)

IsPredictor == app = "StockPredictorApp"

\* the last window build returned normally: the tensors, params and emitted
\* all come from that call
LastBuildOk == ~X_train.isNull /\ error = "none" /\ params # NoParams

\* ... and it split into a train part that is not empty, so that the build
\* did not hand an empty array to tf.tensor3d
SplitNonEmpty == LastBuildOk /\ Len(X_train.data) > 0

Lookback == params.lookback
Horizon == params.horizon
AxisLen == params.axis

\* the label vectors of the split, train first
AllLabels == y_train.data \o y_test.data
AllSamples == X_train.data \o X_test.data

\* the close value the window builder reads for symbols[s] at axis index p
AxisClose(s, p) ==
    IF IsPredictor
    THEN At(processedData.data[symbols[s]]["Close"], p)
    ELSE PivotValue(pivot.data, At(dates, p), symbols[s], "Close")

\* the entry of label vector y that the builder wrote for symbols[s] and
\* horizon day d (1-based): prepareData writes symbol-major, createSequences
\* day-major
BuilderEntry(y, s, d) ==
    IF IsPredictor
    THEN At(y, (s - 1) * Horizon + (d - 1))
    ELSE At(y, (d - 1) * Len(symbols) + (s - 1))

\* the column evaluatePerStock reads for the symbol at index idx and horizon
\* day h (both 0-based)
EvalColumn(idx, h, horizon) == idx * horizon + h

\* the comparison the builder makes for anchor i, symbols[s], day d (1-based)
BuilderLabel(i, s, d) ==
    IF IsPredictor
    THEN IF Gt(AxisClose(s, i + (d - 1)), AxisClose(s, i - 1)) THEN 1 ELSE 0
    ELSE IF Gt(AxisClose(s, i + d), AxisClose(s, i)) THEN 1 ELSE 0

-----------------------------------------------------------------------------
(* C1: every emitted sample's labels compare close at i + d (d = 1..H)     *)
(* with the baseline close at the anchor position i itself: 1 if strictly  *)
(* greater, 0 otherwise.                                                   *)
(* prepareData takes Close[i - 1] as the baseline and Close[i + k],        *)
(* k = 0..2, as the future closes, so the property fails there.            *)
C1_LabelBaselineAtAnchor ==
    SplitNonEmpty =>
        \A t \in DOMAIN AllLabels : \A s \in DOMAIN symbols : \A d \in 1..Horizon :
            BuilderEntry(AllLabels[t].y, s, d) =
                IF Gt(AxisClose(s, AllLabels[t].anchor + d),
                      AxisClose(s, AllLabels[t].anchor))
                THEN 1 ELSE 0

(* C2: in every label vector the label of the entity at canonical index e  *)
(* for horizon day d (0-based) sits at index e * H + d, the column the     *)
(* evaluation reads.  createSequences pushes day by day, symbol inside, so *)
(* the property fails there.                                               *)
C2_LabelLayoutEntityMajor ==
    SplitNonEmpty =>
        \A t \in DOMAIN AllLabels : \A s \in DOMAIN symbols : \A d \in 1..Horizon :
            At(AllLabels[t].y, EvalColumn(s - 1, d - 1, Horizon)) =
                BuilderLabel(AllLabels[t].anchor, s, d)

\* a window build has been called and got past its entry check
BuildCalled == params # NoParams

(* C3: over a hole-free date axis of length n the anchors that yield a     *)
(* sample are exactly L, L + 1, ..., n - H - 1, each once and in order.    *)
C3_AnchorsExactRange ==
    (BuildCalled /\ HoleFree(file)) =>
        /\ emitted = SortAsc({ i \in 0..AxisLen :
                                 Lookback <= i /\ i <= AxisLen - Horizon - 1 })
        /\ LastBuildOk =>
             /\ Len(AllSamples) = Len(emitted)
             /\ \A t \in DOMAIN AllSamples : AllSamples[t].anchor = emitted[t]

\* prepareData has walked a hole-free axis of more than L + H + 1 dates:
\* the first anchor is L, the last n - H - 1
C3_Witness ==
    /\ IsPredictor
    /\ LastBuildOk
    /\ HoleFree(file)
    /\ Len(emitted) >= 2
    /\ emitted[1] = WINDOW_SIZE
    /\ emitted[Len(emitted)] = AxisLen - PREDICTION_DAYS - 1

\* pivotedData of prepareData before and after the forward fill
PivotedNow == PivotedData(rawData.data, SymbolsOf(rawData.data),
                          AllDates(rawData.data))
FilledNow == FilledData(PivotedNow)

\* prepareData has run its pivot, fill and normalisation on rawData
PrepareRan == IsPredictor /\ BuildCalled /\ ~rawData.isNull

\* arr has a non-hole below index p (1-based positions of the sequence)
HasValueBelow(arr, p) == \E q \in 1..(p - 1) : arr[q] # NULL
NearestBelow(arr, p) == SetMax({ q \in 1..(p - 1) : arr[q] # NULL })

FillCorrect(before, after) ==
    /\ Len(after) = Len(before)
    /\ \A p \in DOMAIN before :
         /\ before[p] # NULL => after[p] = before[p]
         /\ (before[p] = NULL /\ HasValueBelow(before, p)) =>
                after[p] = before[NearestBelow(before, p)]
         /\ after[p] = NULL => \A q \in 1..p : after[q] = NULL

(* C5: after the gap filler every series has holes at most as a leading    *)
(* prefix, each filled hole holds the original value of the nearest lower  *)
(* non-hole position, and non-holes are unchanged.                         *)
C5_ForwardFill ==
    PrepareRan =>
        \A s \in DOMAIN PivotedNow : \A f \in Fields :
            FillCorrect(PivotedNow[s][f], FilledNow[s][f])

\* a series with a leading hole that stays, and one with an interior hole
\* filled by a value that is not the first value of the series
C5_Witness ==
    /\ PrepareRan
    /\ \E s \in DOMAIN PivotedNow :
         /\ FilledNow[s]["Close"][1] = NULL
    /\ \E s \in DOMAIN PivotedNow : \E p \in DOMAIN PivotedNow[s]["Close"] :
         /\ PivotedNow[s]["Close"][p] = NULL
         /\ FilledNow[s]["Close"][p] # NULL
         /\ FilledNow[s]["Close"][p] # PivotedNow[s]["Close"][1]

\* symbols[s] has a hole in field f at axis index p of the series the
\* window builder is given: after the forward fill in prepareData, in the
\* pivot (which is never filled) in createSequences
HoleAt(s, f, p) ==
    IF IsPredictor
    THEN At(FilledNow[symbols[s]][f], p) = NULL
    ELSE ~HasPivotRow(pivot.data, At(dates, p), symbols[s])

\* anchor i touches a hole: in the look-back positions [i - L, i), or in a
\* close at the anchor or at a horizon position
TouchesHole(i) ==
    \E s \in DOMAIN symbols :
        \/ \E p \in (i - Lookback)..(i - 1) : \E f \in Fields : HoleAt(s, f, p)
        \/ \E p \in i..(i + Horizon) : HoleAt(s, "Close", p)

(* C4: no emitted sample touches a hole: an anchor whose look-back window  *)
(* or whose anchor and horizon closes hold a hole after the fill is        *)
(* skipped.  prepareData skips nothing (a remaining hole is normalised to  *)
(* 0); createSequences does not look at the future closes.                 *)
C4_NoSampleTouchesHole ==
    (BuildCalled /\ (IsPredictor => ~rawData.isNull)) =>
        \A t \in DOMAIN emitted : ~TouchesHole(emitted[t])

\* the non-hole values of arr are all equal (and there is one)
ConstantSeries(arr) ==
    /\ \E p \in DOMAIN arr : arr[p] # NULL
    /\ \A p, q \in DOMAIN arr : (arr[p] # NULL /\ arr[q] # NULL) => arr[p] = arr[q]

IsZero(x) == IsNum(x) /\ x.n = 0

(* C6: for an entity and field whose non-hole values are all equal, every  *)
(* normalised value is 0, never an undefined (NaN) value.  prepareData     *)
(* divides by max - min = 0.                                               *)
C6_ConstantSeriesNormalisesToZero ==
    (PrepareRan /\ SplitNonEmpty) =>
        \A s \in DOMAIN FilledNow : \A f \in Fields :
            ConstantSeries(FilledNow[s][f]) =>
                \A p \in DOMAIN FilledNow[s][f] :
                    FilledNow[s][f][p] # NULL => IsZero(processedData.data[s][f][p])

(* C7: normalisation preserves holes: the normalised series has a hole at  *)
(* a position exactly if the filled series has one.  prepareData maps a    *)
(* hole to the number 0.                                                   *)
C7_NormalisePreservesHoles ==
    (PrepareRan /\ SplitNonEmpty) =>
        \A s \in DOMAIN FilledNow : \A f \in Fields :
            \A p \in DOMAIN FilledNow[s][f] :
                (processedData.data[s][f][p] = NULL) <=> (FilledNow[s][f][p] = NULL)

\* the sample sequence the last window build handed to the split
BuiltSamples ==
    IF IsPredictor
    THEN Prepared(rawData.data).samples
    ELSE SequenceX(pivot.data, dates, symbols, minMax, emitted, Lookback)

BuiltLabels ==
    IF IsPredictor
    THEN Prepared(rawData.data).labels
    ELSE SequenceY(pivot.data, dates, symbols, emitted, Horizon)

(* C8: a split of N samples gives train exactly floor(0.8 N) samples and   *)
(* test the other N - floor(0.8 N), and train followed by test is the      *)
(* sample sequence, nothing lost, duplicated or reordered.                 *)
C8_SplitSizesAndConcat ==
    LastBuildOk =>
        /\ 5 * Len(X_train.data) <= 4 * Len(BuiltSamples)
        /\ 4 * Len(BuiltSamples) < 5 * (Len(X_train.data) + 1)
        /\ Len(X_test.data) = Len(BuiltSamples) - Len(X_train.data)
        /\ X_train.data \o X_test.data = BuiltSamples
        /\ y_train.data \o y_test.data = BuiltLabels

\* a split in which 0.8 N is not whole and both parts have several samples
C8_Witness ==
    /\ LastBuildOk
    /\ Len(X_train.data) >= 2
    /\ Len(X_test.data) >= 2
    /\ (4 * Len(emitted)) % 5 # 0

(* C9: samples are emitted in strictly increasing anchor order and the     *)
(* split keeps it: every test sample's anchor is at or after every train   *)
(* sample's, and train and test share no sample.                           *)
C9_ChronologicalSplit ==
    /\ \A t \in DOMAIN emitted : \A u \in DOMAIN emitted :
         t < u => emitted[t] < emitted[u]
    /\ LastBuildOk =>
         /\ \A t, u \in DOMAIN AllSamples :
              t < u => AllSamples[t].anchor < AllSamples[u].anchor
         /\ \A a \in DOMAIN X_train.data : \A b \in DOMAIN X_test.data :
              /\ X_train.data[a].anchor <= X_test.data[b].anchor
              /\ X_train.data[a].anchor # X_test.data[b].anchor
         /\ \A a \in DOMAIN y_train.data : \A b \in DOMAIN y_test.data :
              y_train.data[a].anchor < y_test.data[b].anchor
         /\ \A t \in DOMAIN AllSamples : AllLabels[t].anchor = AllSamples[t].anchor

\* prepareData has split at least three samples into a train and a test part
C9_Witness ==
    /\ IsPredictor
    /\ LastBuildOk
    /\ Len(X_train.data) >= 2
    /\ Len(X_test.data) >= 1

\* the split index the claim speaks of, for the N samples of the last build
ClaimedSplit == (4 * Len(emitted)) \div 5

(* C10: when N < 2, or floor(0.8 N) is 0 or N, the splitter fails with     *)
(* InsufficientData and never returns a split with an empty train or test. *)
(* Neither loader checks the split: only createSequences throws, and only  *)
(* for N = 0.                                                              *)
C10_DegenerateSplitFails ==
    /\ (BuildCalled /\ (IsPredictor => ~rawData.isNull)
          /\ (Len(emitted) < 2 \/ ClaimedSplit = 0 \/ ClaimedSplit = Len(emitted)))
         => error = "No valid sequences generated"
    /\ LastBuildOk => (Len(X_train.data) > 0 /\ Len(X_test.data) > 0)


(* C11: a window build that yields no anchor (in particular one over a     *)
(* date axis of at most L + H dates) fails with the insufficient-data      *)
(* error and does not produce tensors.  createSequences throws for         *)
(* X.length = 0; prepareData has no such check and goes on to the split.   *)
C11_NoAnchorsFails ==
    (BuildCalled /\ (IsPredictor => ~rawData.isNull)
       /\ (Len(emitted) = 0 \/ AxisLen <= Lookback + Horizon))
      => (error = "No valid sequences generated" /\ ~LastBuildOk)


-----------------------------------------------------------------------------
(* Evaluation: GRUModel.computePerStockAccuracy and getPredictionTimeline  *)
(* of src/app.js, GRUModel.evaluatePerStock of src/unnamed/part_001.       *)
(*                                                                         *)
(* The evaluators read the test labels, the symbols and the predictions    *)
(* the network returned.  The network is not modelled: SpecEval starts     *)
(* after a window build with horizon h whose test part has 0..MaxSamples   *)
(* label rows, and with any prediction tensor of the same shape whose      *)
(* rows come from PredRows.                                                *)

MaxSamples == 2     \* most rows of y_test and of the predictions

EvalHorizons == { 2, PREDICTION_DAYS }

\* predicted probabilities: 0.4, 0.5, 0.9
Probs == << Frac(2, 5), Frac(1, 2), Frac(9, 10) >>

PredRows(cols) ==
    { Arr([ c \in 1..cols |-> Probs[((ab[1] * c + ab[2]) % 3) + 1] ]) :
        ab \in { << 0, 0 >>, << 0, 1 >>, << 0, 2 >>, << 1, 0 >>, << 2, 1 >> } }

TrueRows(cols) ==
    { Arr([ c \in 1..cols |-> (c \div m) % 2 ]) : m \in 1..3 }

\* all tensors of n rows taken from the set rows
RECURSIVE Tensors(_, _)
Tensors(n, rows) ==
    IF n = 0 THEN { << >> }
    ELSE { Append(t, r) : t \in Tensors(n - 1, rows), r \in rows }

\* mutant: >= 0.5 instead of > 0.5
ThresholdInclusive(p) == IF Gt(Frac(1, 2), p) THEN 0 ELSE 1

\* predData[sample][predIdx] > 0.5 ? 1 : 0
Threshold(p) == IF Gt(p, Frac(1, 2)) THEN 1 ELSE 0

\* the label rows of a y tensor: y_test.array()
ArrayOf(y) == Arr([ t \in DOMAIN y |-> y[t].y ])

\* the index forEach passes for a key of the result object (the last one,
\* should a symbol occur twice)
IndexOf(syms, sym) == SetMax({ i \in DOMAIN syms : syms[i] = sym }) - 1

\* the two nested loops of computePerStockAccuracy / evaluatePerStock for
\* one symbol, from iteration k = sample * predictionDays + day on, with
\* the counters correct and total in acc
RECURSIVE CountLoop(_, _, _, _, _, _, _)
CountLoop(predData, trueData, len, stockIdx, predictionDays, k, acc) ==
    IF k >= len * predictionDays THEN acc
    ELSE LET sample == k \div predictionDays
             day == k % predictionDays
             predIdx == stockIdx * predictionDays + day
             predicted == Threshold(At(At(predData, sample), predIdx))
             actual == At(At(trueData, sample), predIdx)
         IN  CountLoop(predData, trueData, len, stockIdx, predictionDays, k + 1,
                 [ correct |-> acc.correct + (IF predicted = actual THEN 1 ELSE 0),
                   total |-> acc.total + 1 ])

\* computePerStockAccuracy: loops over predData.length samples
PerStockAccuracy(predData, trueData, syms, predictionDays) ==
    Obj([ sym \in Range(syms) |->
        LET c == CountLoop(predData, trueData, Len(predData),
                           IndexOf(syms, sym), predictionDays, 0,
                           [ correct |-> 0, total |-> 0 ])
        IN  Div(Num(c.correct), Num(c.total)) ])


\* getPredictionTimeline: per symbol one sampleResult per sample, each of
\* predictionDays records
PredictionTimeline(predData, trueData, syms, predictionDays) ==
    Obj([ sym \in Range(syms) |->
        Arr([ t \in 1..Len(predData) |->
            Arr([ d \in 1..predictionDays |->
                LET predIdx == IndexOf(syms, sym) * predictionDays + (d - 1)
                    predicted == Threshold(At(At(predData, t - 1), predIdx))
                    actual == At(At(trueData, t - 1), predIdx)
                IN  [ predicted |-> predicted,
                      actual |-> actual,
                      correct |-> predicted = actual ] ]) ]) ])

\* evaluatePerStock: preds of one symbol, one record pushed per sample and
\* horizon day into a single array
StockPreds(yTrueArr, yPredArr, idx, horizon) ==
    Arr([ k \in 1..(Len(yTrueArr) * horizon) |->
        LET s == (k - 1) \div horizon
            h == (k - 1) % horizon
            tgt == idx * horizon + h
            trueVal == At(At(yTrueArr, s), tgt)
            predVal == Threshold(At(At(yPredArr, s), tgt))
        IN  [ true |-> trueVal, pred |-> predVal,
              correct |-> trueVal = predVal ] ])

\* evaluatePerStock: loops over yTrueArr.length samples
EvaluatePerStock(yTrue, yPred, syms, horizon) ==
    [ stockAccuracies |->
        Obj([ sym \in Range(syms) |->
            LET c == CountLoop(yPred, yTrue, Len(yTrue), IndexOf(syms, sym),
                               horizon, 0, [ correct |-> 0, total |-> 0 ])
            IN  Div(Num(c.correct), Num(c.total)) ]),
      stockPredictions |->
        Obj([ sym \in Range(syms) |->
            StockPreds(yTrue, yPred, IndexOf(syms, sym), horizon) ]) ]

loaderVars == << app, file, rawData, processedData, dateIndex, rawCSV, pivot,
                 dates, minMax, symbols, X_train, y_train, X_test, y_test,
                 params, emitted, error >>

\* the state after a window build with horizon h that left n label rows in
\* y_test, and after model.predict(X_test) returned n rows; the evaluators
\* read nothing else of the loader
InitEval ==
    /\ app \in Apps
    /\ file = << >>
    /\ rawData = Nil
    /\ processedData = Nil
    /\ dateIndex = << >>
    /\ rawCSV = Nil
    /\ pivot = Nil
    /\ dates = << >>
    /\ minMax = << >>
    /\ symbols = Tickers
    /\ X_train = Val(<< >>)
    /\ y_train = Val(<< >>)
    /\ X_test = Val(<< >>)
    /\ emitted = << >>
    /\ error = "none"
    /\ \E h \in EvalHorizons, n \in 0..MaxSamples :
         /\ params = [ lookback |-> WINDOW_SIZE, horizon |-> h, axis |-> 0 ]
         /\ \E yt \in Tensors(n, TrueRows(Len(Tickers) * h)) :
              y_test = Val(Arr([ t \in 1..n |-> [ anchor |-> t, y |-> yt[t] ] ]))
         /\ \E yp \in Tensors(n, PredRows(Len(Tickers) * h)) :
              predictions = Val(yp)
    /\ stockAccuracies = Nil
    /\ timeline = Nil
    /\ currentEval = Nil
    /\ uiState = "initial"
    /\ isTraining = FALSE
    /\ fits = << >>
    /\ returned = NoFit
    /\ disabled = AllDisabled

\* part_000 evaluateModel: stockAccuracies = await computePerStockAccuracy(..)
ComputePerStockAccuracy ==
    /\ app = "StockPredictorApp"
    /\ ~predictions.isNull
    /\ stockAccuracies' = Val(PerStockAccuracy(predictions.data,
                                  ArrayOf(y_test.data), symbols, params.horizon))
    /\ UNCHANGED << loaderVars, predictions, timeline, currentEval, trainVars >>

\* part_000 evaluateModel: timeline = await getPredictionTimeline(..)
GetPredictionTimeline ==
    /\ app = "StockPredictorApp"
    /\ ~predictions.isNull
    /\ timeline' = Val(PredictionTimeline(predictions.data,
                           ArrayOf(y_test.data), symbols, params.horizon))
    /\ UNCHANGED << loaderVars, predictions, stockAccuracies, currentEval,
                    trainVars >>

\* app.js runPredict: this.currentEval = this.model.evaluatePerStock(..)
RunEvaluatePerStock ==
    /\ app = "StockPredictionApp"
    /\ ~predictions.isNull
    /\ currentEval' = Val(EvaluatePerStock(ArrayOf(y_test.data),
                              predictions.data, symbols, params.horizon))
    /\ UNCHANGED << loaderVars, predictions, stockAccuracies, timeline,
                    trainVars >>

NextEval == ComputePerStockAccuracy \/ GetPredictionTimeline \/ RunEvaluatePerStock

SpecEval == InitEval /\ [][NextEval]_vars


-----------------------------------------------------------------------------
(* What the evaluation claims speak of *)

SampleCount == Len(y_test.data)

\* the class of a predicted probability: 1 only if strictly above 1/2
ClassOf(p) == IF IsNum(p) /\ 2 * p.n > p.d THEN 1 ELSE 0

\* the (sample, day) pairs of the entity at index e (0-based) whose class
\* at column e * H + d equals the true label at that column
CorrectPairs(e) ==
    { sd \in (1..SampleCount) \X (0..(Horizon - 1)) :
        ClassOf(predictions.data[sd[1]][e * Horizon + sd[2] + 1])
            = y_test.data[sd[1]].y[e * Horizon + sd[2] + 1] }

\* two JavaScript numbers are the same number
NumEq(a, b) == IsNum(a) /\ IsNum(b) /\ a.n * b.d = b.n * a.d

AccuracyAsClaimed(acc) ==
    \A e \in DOMAIN symbols :
        NumEq(acc[symbols[e]],
              Frac(Cardinality(CorrectPairs(e - 1)), SampleCount * Horizon))

(* C12: for every entity at index e the reported accuracy is the number of *)
(* (sample, day) pairs whose thresholded prediction at column e * H + d    *)
(* equals the true label there, divided by sample_count * H; a probability *)
(* is class 1 only if strictly greater than 0.5.                           *)
C12_AccuracyIsFractionCorrect ==
    SampleCount > 0 =>
        /\ ~stockAccuracies.isNull => AccuracyAsClaimed(stockAccuracies.data)
        /\ ~currentEval.isNull => AccuracyAsClaimed(currentEval.data.stockAccuracies)

\* a run of computePerStockAccuracy on two samples in
\* which a probability of exactly 0.5 meets a true label 0 and the entity's
\* accuracy is neither 0 nor 1
C12_Witness ==
    /\ ~stockAccuracies.isNull
    /\ SampleCount >= 2
    /\ \E e \in DOMAIN symbols :
         /\ \E sd \in CorrectPairs(e - 1) :
                predictions.data[sd[1]][(e - 1) * Horizon + sd[2] + 1] = Frac(1, 2)
         /\ Cardinality(CorrectPairs(e - 1)) < SampleCount * Horizon
         /\ stockAccuracies.data[symbols[e]].n > 0


\* list is one element per sample, in sample order, each a list of exactly
\* H records in day order, correct being predicted = actual
RecordsAsClaimed(list) ==
    /\ Len(list) = SampleCount
    /\ \A t \in DOMAIN list :
         /\ Len(list[t]) = Horizon
         /\ \A d \in DOMAIN list[t] :
              list[t][d].correct <=> (list[t][d].predicted = list[t][d].actual)

\* the records of list (one list per sample) that are tagged correct
CorrectRecords(list) ==
    { td \in (DOMAIN list) \X (1..Horizon) : list[td[1]][td[2]].correct }

(* C13: for every entity the evaluation returns one element per sample, in *)
(* sample order, each a list of exactly H prediction records in day order  *)
(* with correct iff predicted = actual, and the entity's accuracy is the   *)
(* fraction of correct records.  getPredictionTimeline does; evaluatePer-  *)
(* Stock pushes every record into one flat list of sample_count * H.       *)
C13_RecordsPerSample ==
    /\ ~timeline.isNull =>
         \A e \in DOMAIN symbols :
            /\ RecordsAsClaimed(timeline.data[symbols[e]])
            /\ (~stockAccuracies.isNull /\ SampleCount > 0) =>
                  NumEq(stockAccuracies.data[symbols[e]],
                        Frac(Cardinality(CorrectRecords(timeline.data[symbols[e]])),
                             SampleCount * Horizon))
    /\ ~currentEval.isNull =>
         \A e \in DOMAIN symbols :
            RecordsAsClaimed(currentEval.data.stockPredictions[symbols[e]])

(* C14: called with no sample the evaluation fails with the empty-input    *)
(* error and returns no accuracy.  No evaluator checks the sample count:   *)
(* each returns correct / total = 0 / 0 for every symbol.                  *)
C14_EmptyInputFails ==
    SampleCount = 0 => (stockAccuracies.isNull /\ currentEval.isNull)


-----------------------------------------------------------------------------
(* What the pivot claims speak of *)

\* a loader has stored its symbols: prepareData ran on loaded rows, or
\* parseAndPivot ran
SymbolsStored == IF IsPredictor THEN PrepareRan ELSE ~pivot.isNull

(* C15: the entity set is the distinct symbols of the file in ascending    *)
(* order, whatever the order of the rows.  parseAndPivot sorts;            *)
(* prepareData keeps the order of first appearance in the file.            *)
C15_EntitySetSorted ==
    SymbolsStored =>
        symbols = SortSymbols({ file[i].Symbol : i \in DOMAIN file })


-----------------------------------------------------------------------------
(* Short files for the pivot: up to MaxRows rows in any order, over two    *)
(* dates and two tickers, so that rows come out of date order and a        *)
(* (date, symbol) pair can occur more than once; a row either has both     *)
(* prices or lacks its close.                                              *)

MaxRows == 3        \* most rows of a short file

PivotRows ==
    { [ Date |-> dt, Symbol |-> s, Open |-> oc[1], Close |-> oc[2] ] :
        dt \in { 1, 2 }, s \in Range(Tickers),
        oc \in { << Num(0), Num(1) >>, << Num(1), EMPTY >> } }

RECURSIVE RowSeqs(_)
RowSeqs(n) ==
    IF n = 0 THEN { << >> }
    ELSE LET shorter == RowSeqs(n - 1)
         IN  shorter \cup { Append(f, r) : f \in { g \in shorter : Len(g) = n - 1 },
                                           r \in PivotRows }

ShortFiles == RowSeqs(MaxRows)

InitPivot ==
    /\ app \in Apps
    /\ file \in ShortFiles
    /\ rawData = Nil
    /\ processedData = Nil
    /\ dateIndex = << >>
    /\ rawCSV = Nil
    /\ pivot = Nil
    /\ dates = << >>
    /\ minMax = << >>
    /\ symbols = << >>
    /\ X_train = Nil
    /\ y_train = Nil
    /\ X_test = Nil
    /\ y_test = Nil
    /\ params = NoParams
    /\ emitted = << >>
    /\ error = "none"
    /\ predictions = Nil
    /\ stockAccuracies = Nil
    /\ timeline = Nil
    /\ currentEval = Nil
    /\ uiState = "initial"
    /\ isTraining = FALSE
    /\ fits = << >>
    /\ returned = NoFit
    /\ disabled = AllDisabled

NextPivot == LoadCSV \/ PrepareData \/ LoadAndPivot

SpecPivot == InitPivot /\ [][NextPivot]_vars


\* the date axis the loader built
DateAxis == IF IsPredictor THEN AllDates(rawData.data) ELSE dates

\* the rows of the file for a date and a symbol, and whether row i is the
\* last of them in file order
RowsFor(dt, sym) == { i \in DOMAIN file : file[i].Date = dt /\ file[i].Symbol = sym }
IsLastFor(i) == \A j \in RowsFor(file[i].Date, file[i].Symbol) : j <= i

\* the pivoted value of field f has a hole at axis position p (1-based) for sym
PivotHole(sym, f, p) ==
    IF IsPredictor THEN PivotedNow[sym][f][p] = NULL
    ELSE ~HasPivotRow(pivot.data, DateAxis[p], sym)

\* the pivoted value is the cell of file row i as the loader's parser reads it
PivotHolds(sym, f, p, i) ==
    IF IsPredictor THEN PivotedNow[sym][f][p] = DynamicTyping(file[i][f])
    ELSE pivot.data[DateAxis[p]][sym][f] = ParseFloat(file[i][f])

(* C16: after pivoting the date axis is strictly increasing and holds      *)
(* every date of the file once; every entity and field has one slot per    *)
(* axis position; the slot of (e, f, i) holds the value of the last row of *)
(* the file for (date_axis[i], e), and is a hole if there is no such row.  *)
C16_PivotLastWriteWins ==
    SymbolsStored =>
        /\ \A p, q \in DOMAIN DateAxis : p < q => DateAxis[p] < DateAxis[q]
        /\ Range(DateAxis) = { file[i].Date : i \in DOMAIN file }
        /\ Range(symbols) = { file[i].Symbol : i \in DOMAIN file }
        /\ IsPredictor =>
             \A sym \in Range(symbols) : \A f \in Fields :
                Len(PivotedNow[sym][f]) = Len(DateAxis)
        /\ \A sym \in Range(symbols) : \A f \in Fields : \A p \in DOMAIN DateAxis :
             /\ RowsFor(DateAxis[p], sym) = {} => PivotHole(sym, f, p)
             /\ \A i \in RowsFor(DateAxis[p], sym) :
                  IsLastFor(i) => PivotHolds(sym, f, p, i)

\* a pivot of a file with rows out of date order, two rows of one date and
\* symbol with different opens, and a symbol without a row on some date
C16_Witness ==
    /\ SymbolsStored
    /\ \E i, j \in DOMAIN file : i < j /\ file[i].Date > file[j].Date
    /\ \E i, j \in DOMAIN file :
         /\ i < j
         /\ file[i].Date = file[j].Date
         /\ file[i].Symbol = file[j].Symbol
         /\ file[i].Open # file[j].Open
    /\ \E sym \in Range(symbols) : \E p \in DOMAIN DateAxis :
         RowsFor(DateAxis[p], sym) = {}


\* the file has a row without a numeric open or close
MalformedFile ==
    \E i \in DOMAIN file : file[i].Open.k = "empty" \/ file[i].Close.k = "empty"

(* C17: a file with a row that lacks a numeric open or close is rejected   *)
(* and no pivoted series is produced.  Neither loader rejects a row:       *)
(* Papa.parse turns the empty cell into null, which prepareData pivots as  *)
(* a hole and fills forward; parseFloat turns it into NaN, which           *)
(* parseAndPivot stores as the value.                                      *)
C17_MalformedRowRejected ==
    MalformedFile =>
        /\ pivot.isNull
        /\ ~(PrepareRan /\ SplitNonEmpty)


-----------------------------------------------------------------------------
\* the normalised value the window builder reads for symbols[s], field f at
\* axis index p
AxisNorm(s, f, p) ==
    IF IsPredictor
    THEN At(processedData.data[symbols[s]][f], p)
    ELSE norm(PivotValue(pivot.data, At(dates, p), symbols[s], f),
              minMax[symbols[s]][f].min, minMax[symbols[s]][f].max)

(* C18: the input tensor of the sample with anchor i has exactly L rows;   *)
(* row r (0-based) holds the values of axis position i - L + r, oldest     *)
(* first and the anchor position excluded; a row has 2 * entity_count      *)
(* values, open then close of each entity in entity order.  prepareData    *)
(* does; the look-back loop of createSequences reads dates[i - j] for      *)
(* j = L - 1 .. 0, the positions i - L + 1 .. i, anchor included.          *)
C18_InputTensorRows ==
    SplitNonEmpty =>
        \A t \in DOMAIN AllSamples :
            /\ Len(AllSamples[t].x) = Lookback
            /\ \A r \in 0..(Lookback - 1) :
                 /\ Len(At(AllSamples[t].x, r)) = 2 * Len(symbols)
                 /\ \A s \in DOMAIN symbols :
                      /\ At(At(AllSamples[t].x, r), 2 * (s - 1))
                           = AxisNorm(s, "Open", AllSamples[t].anchor - Lookback + r)
                      /\ At(At(AllSamples[t].x, r), 2 * (s - 1) + 1)
                           = AxisNorm(s, "Close", AllSamples[t].anchor - Lookback + r)


-----------------------------------------------------------------------------
\* a step of the window builder: it changed what a build writes
BuilderStep ==
    \/ params' # params
    \/ emitted' # emitted
    \/ error' # error
    \/ X_train' # X_train
    \/ X_test' # X_test

(* C19: a run of the window builder on a loaded dataset, with whatever     *)
(* look-back and horizon, leaves the pivoted series, the date axis, the    *)
(* entity order and the fitted per-entity (min, max) unchanged: only the   *)
(* samples and the split change.  createSequences assigns none of them;    *)
(* a repeated prepareData recomputes the same series and entity order      *)
(* from the unchanged rows.                                                *)
C19_BuilderKeepsSharedState ==
    [][ BuilderStep =>
          /\ UNCHANGED << rawCSV, pivot, dates, minMax, rawData >>
          /\ ~IsPredictor => UNCHANGED symbols
          /\ (PrepareRan /\ ~processedData.isNull) =>
                UNCHANGED << symbols, processedData >> ]_vars

\* createSequences has built samples with a look-back and horizon other
\* than the page's 12 and 3, on a loaded pivot with fitted scales
C19_Witness ==
    /\ ~IsPredictor
    /\ ~pivot.isNull
    /\ minMax # << >>
    /\ LastBuildOk
    /\ Lookback = 2
    /\ Horizon = 1


-----------------------------------------------------------------------------
(* Training in StockPredictorApp: startTraining and stopTraining of        *)
(* src/unnamed/part_000, GRUModel.train and stopTraining of src/app.js.    *)
(*                                                                         *)
(* model.fit is TensorFlow.js: it runs its epochs one after the other,     *)
(* calls onEpochEnd after each and onTrainEnd after the last, and yields   *)
(* to the page's event handlers in between (await tf.nextFrame()).  It     *)
(* ends early only if a callback sets the LayersModel's stopTraining       *)
(* property, which no code of the repository does.  SpecTrain starts from  *)
(* the page with data loaded.                                              *)

MaxEpochs == 3      \* stands for the 100 epochs startTraining asks for
MaxFits == 2        \* most fit calls in flight

\* the buttons as updateUIState sets them
TrainBtnEnabled == uiState \in { "data_loaded", "trained" }
StopBtnEnabled == uiState = "training"
EvaluateBtnEnabled == uiState = "trained"

InitTrain ==
    /\ app = "StockPredictorApp"
    /\ file = << >>
    /\ rawData = Val(<< >>)
    /\ processedData = Val(<< >>)
    /\ dateIndex = << >>
    /\ rawCSV = Nil
    /\ pivot = Nil
    /\ dates = << >>
    /\ minMax = << >>
    /\ symbols = Tickers
    /\ X_train = Val(<< >>)
    /\ y_train = Val(<< >>)
    /\ X_test = Val(<< >>)
    /\ y_test = Val(<< >>)
    /\ params = [ lookback |-> WINDOW_SIZE, horizon |-> PREDICTION_DAYS,
                  axis |-> 0 ]
    /\ emitted = << >>
    /\ error = "none"
    /\ predictions = Nil
    /\ stockAccuracies = Nil
    /\ timeline = Nil
    /\ currentEval = Nil
    /\ uiState = "data_loaded"
    /\ isTraining = FALSE
    /\ fits = << >>
    /\ returned = NoFit
    /\ disabled = AllDisabled

evalVars == << predictions, stockAccuracies, timeline, currentEval >>

\* click on Train: startTraining up to the await of model.train, and
\* GRUModel.train up to the await of model.fit
StartTraining ==
    /\ app = "StockPredictorApp"
    /\ TrainBtnEnabled
    /\ ~X_train.isNull
    /\ Len(fits) < MaxFits
    /\ uiState' = "training"
    /\ isTraining' = TRUE
    /\ fits' = Append(fits, NoFit)
    /\ UNCHANGED << loaderVars, evalVars, returned, disabled >>

\* fit k finishes an epoch and calls onEpochEnd
EpochEnd ==
    /\ \E k \in DOMAIN fits :
         /\ fits[k].epoch < MaxEpochs
         /\ fits' = [ fits EXCEPT ![k].epoch = @ + 1 ]
    /\ UNCHANGED << loaderVars, evalVars, uiState, isTraining, returned,
                    disabled >>

\* fit k has run all its epochs: onTrainEnd, then train returns
TrainEnd ==
    /\ \E k \in DOMAIN fits :
         /\ fits[k].epoch = MaxEpochs
         /\ returned' = fits[k]
         /\ fits' = SubSeq(fits, 1, k - 1) \o SubSeq(fits, k + 1, Len(fits))
    /\ isTraining' = FALSE
    /\ uiState' = "trained"
    /\ UNCHANGED << loaderVars, evalVars, disabled >>

\* fit k rejects: the catch of GRUModel.train clears isTraining and rethrows,
\* the catch of startTraining goes back to 'data_loaded'.  A fit rejects when
\* a callback throws; startTraining's onEpochEnd formats logs.acc, and
\* which keys the library puts in logs is not decided by this repository.
TrainFail ==
    /\ \E k \in DOMAIN fits :
         /\ fits[k].epoch < MaxEpochs
         /\ fits' = SubSeq(fits, 1, k - 1) \o SubSeq(fits, k + 1, Len(fits))
    /\ isTraining' = FALSE
    /\ uiState' = "data_loaded"
    /\ UNCHANGED << loaderVars, evalVars, returned, disabled >>

\* click on Stop: StockPredictorApp.stopTraining, GRUModel.stopTraining
StopTraining ==
    /\ app = "StockPredictorApp"
    /\ StopBtnEnabled
    /\ isTraining' = FALSE
    /\ uiState' = "data_loaded"
    /\ fits' = [ k \in DOMAIN fits |->
                   IF fits[k].stoppedAt = -1
                   THEN [ fits[k] EXCEPT !.stoppedAt = fits[k].epoch ]
                   ELSE fits[k] ]
    /\ UNCHANGED << loaderVars, evalVars, returned, disabled >>

NextTrain ==
    StartTraining \/ EpochEnd \/ TrainEnd \/ TrainFail \/ StopTraining

SpecTrain == InitTrain /\ [][NextTrain]_vars

(* C20: after stopTraining is called during a train call the training     *)
(* loop starts no epoch beyond the one that is running, and the train call *)
(* returns before the configured epochs are exhausted.  stopTraining only  *)
(* clears GRUModel.isTraining, which nothing reads: the fit goes on.       *)
C20_StopCancelsTraining ==
    /\ \A k \in DOMAIN fits :
         fits[k].stoppedAt >= 0 => fits[k].epoch <= fits[k].stoppedAt + 1
    /\ (returned.stoppedAt >= 0 /\ returned.stoppedAt + 1 < MaxEpochs)
          => returned.epoch < MaxEpochs


(* C21: in StockPredictorApp, whatever buttons are clicked while they are  *)
(* enabled, at most one model fit is in flight, and the Evaluate button is *)
(* not enabled while a fit is in flight.  Stop re-enables Train although   *)
(* the fit goes on: a second fit starts beside it, and the first fit's     *)
(* onTrainEnd moves the page to 'trained' while the second still runs.     *)
C21_OneFitAndNoEvaluateDuringFit ==
    /\ Len(fits) <= 1
    /\ Len(fits) > 0 => ~EvaluateBtnEnabled


-----------------------------------------------------------------------------
(* The page of StockPredictionApp (src/app.js): handleFile and trainModel, *)
(* with the DataLoader of src/unnamed/part_000 and the GRUModel of         *)
(* src/unnamed/part_001.  In SpecApp the user picks one file after the     *)
(* other and clicks Train whenever the button is enabled; a running        *)
(* model.train yields to the page's events after every epoch.  The markup  *)
(* of the page is not part of the sources: either button may start enabled *)
(* or disabled.                                                            *)

\* the rows of file f that belong to ticker sym
OnlyTicker(f, sym) == SelectSeq(f, LAMBDA r : r.Symbol = sym)

\* a file with every row of both tickers, and one in which ticker B lacks
\* the date after the 12th: no 12-day window of it is complete
FullFile ==
    MkFile([ n |-> MaxDates, pa |-> [ d \in VaryDates |-> Num(0) ],
             lead |-> 0, gapB |-> 0, openFlat |-> FALSE,
             ord |-> << "A", "B" >> ])
GapFile ==
    MkFile([ n |-> MaxDates, pa |-> [ d \in VaryDates |-> Num(0) ],
             lead |-> 0, gapB |-> 1, openFlat |-> FALSE,
             ord |-> << "A", "B" >> ])

\* the files the user picks: long files of both tickers and of one, files
\* of a single row, and the file of the header line alone
AppFiles ==
    { FullFile, GapFile, OnlyTicker(FullFile, "A"), OnlyTicker(FullFile, "B") }
        \cup { f \in ShortFiles : Len(f) <= 1 }

InitApp ==
    /\ app = "StockPredictionApp"
    /\ file = << >>
    /\ rawData = Nil
    /\ processedData = Nil
    /\ dateIndex = << >>
    /\ rawCSV = Nil
    /\ pivot = Nil
    /\ dates = << >>
    /\ minMax = << >>
    /\ symbols = << >>
    /\ X_train = Nil
    /\ y_train = Nil
    /\ X_test = Nil
    /\ y_test = Nil
    /\ params = NoParams
    /\ emitted = << >>
    /\ error = "none"
    /\ predictions = Nil
    /\ stockAccuracies = Nil
    /\ timeline = Nil
    /\ currentEval = Nil
    /\ uiState = "initial"
    /\ isTraining = FALSE
    /\ fits = << >>
    /\ returned = NoFit
    /\ disabled \in [ { "trainBtn", "predictBtn" } -> BOOLEAN ]

\* change event of the file input: handleFile, from reader.onload on.
\* loadCSV stores the new pivot, axis, symbols and scale; createSequences(12, 3)
\* stores the four tensors unless it throws; only then the Train button is
\* enabled.  error is the message handleFile caught.
HandleFile ==
    /\ app = "StockPredictionApp"
    /\ \E f \in AppFiles :
         /\ file' = f
         /\ rawCSV' = Val(f)
         /\ IF Len(f) = 0
            THEN /\ error' = "CSV too short"
                 /\ UNCHANGED << pivot, dates, symbols, minMax, params, emitted,
                                 X_train, y_train, X_test, y_test, disabled >>
            ELSE \E p \in { Pivoted(f) } :
                 \E q \in { Sequenced(p.pivot, p.dates, p.symbols, p.minMax,
                                      12, 3) } :
                   /\ pivot' = Val(p.pivot)
                   /\ dates' = p.dates
                   /\ symbols' = p.symbols
                   /\ minMax' = p.minMax
                   /\ params' = [ lookback |-> 12, horizon |-> 3,
                                  axis |-> Len(p.dates) ]
                   /\ emitted' = q.pushed
                   /\ \E emptyOk \in IF Len(q.X) > 0 /\ q.split = 0
                                    THEN BOOLEAN ELSE { TRUE } :
                        IF Len(q.X) = 0 \/ ~emptyOk
                        THEN /\ error' = IF Len(q.X) = 0
                                         THEN "No valid sequences generated"
                                         ELSE "tensor3d"
                             /\ UNCHANGED << X_train, y_train, X_test, y_test,
                                             disabled >>
                        ELSE /\ X_train' = Val(Slice(q.X, 0, q.split))
                             /\ y_train' = Val(Slice(q.y, 0, q.split))
                             /\ X_test' = Val(Slice(q.X, q.split, Len(q.X)))
                             /\ y_test' = Val(Slice(q.y, q.split, Len(q.y)))
                             /\ error' = "none"
                             /\ disabled' = [ disabled EXCEPT !.trainBtn = FALSE ]
    /\ UNCHANGED << app, rawData, processedData, dateIndex, evalVars, uiState,
                    isTraining, fits, returned >>

\* mutant: trainModel without its isTraining guard
TrainModelUnguarded ==
    /\ app = "StockPredictionApp"
    /\ ~disabled.trainBtn
    /\ Len(fits) < MaxFits
    /\ isTraining' = TRUE
    /\ disabled' = AllDisabled
    /\ fits' = Append(fits, NoFit)
    /\ UNCHANGED << loaderVars, evalVars, uiState, returned >>

\* click on Train: trainModel up to the await of model.train, which has
\* called model.fit.  A click while isTraining returns at once.
TrainModel ==
    /\ app = "StockPredictionApp"
    /\ ~disabled.trainBtn
    /\ Len(fits) < MaxFits
    /\ IF isTraining
       THEN UNCHANGED << isTraining, disabled, fits >>
       ELSE /\ isTraining' = TRUE
            /\ disabled' = AllDisabled
            /\ fits' = Append(fits, NoFit)
    /\ UNCHANGED << loaderVars, evalVars, uiState, returned >>

\* model.train resolves after the last epoch: trainModel enables the
\* Predict button, and its finally clears isTraining
TrainComplete ==
    /\ app = "StockPredictionApp"
    /\ \E k \in DOMAIN fits :
         /\ fits[k].epoch = MaxEpochs
         /\ returned' = fits[k]
         /\ fits' = SubSeq(fits, 1, k - 1) \o SubSeq(fits, k + 1, Len(fits))
    /\ disabled' = [ disabled EXCEPT !.predictBtn = FALSE ]
    /\ isTraining' = FALSE
    /\ UNCHANGED << loaderVars, evalVars, uiState >>

\* model.train rejects (buildModel or model.fit throws, which the tensor
\* library decides): trainModel's catch reports it, its finally clears
\* isTraining
TrainThrows ==
    /\ app = "StockPredictionApp"
    /\ \E k \in DOMAIN fits :
         /\ fits[k].epoch < MaxEpochs
         /\ fits' = SubSeq(fits, 1, k - 1) \o SubSeq(fits, k + 1, Len(fits))
    /\ isTraining' = FALSE
    /\ UNCHANGED << loaderVars, evalVars, uiState, returned, disabled >>

NextApp ==
    HandleFile \/ TrainModel \/ EpochEnd \/ TrainComplete \/ TrainThrows

SpecApp == InitApp /\ [][NextApp]_vars


(* C22: in StockPredictionApp, however file loads and Train clicks         *)
(* interleave, isTraining is true exactly while a model.train call is in   *)
(* flight: there is never more than one such call, and isTraining is false *)
(* again once the call has completed or thrown.                            *)
C22_IsTrainingIffTrainInFlight ==
    app = "StockPredictionApp" =>
        /\ Len(fits) <= 1
        /\ isTraining <=> Len(fits) = 1

\* a file load has enabled the Train button again while a train call that
\* has completed an epoch is in flight
C22_Witness ==
    /\ app = "StockPredictionApp"
    /\ isTraining
    /\ ~disabled.trainBtn
    /\ Len(fits) = 1
    /\ fits[1].epoch > 0


\* training can be started: the Train button is enabled and no train call
\* is in flight
TrainCanStart ==
    app = "StockPredictionApp" /\ ~disabled.trainBtn /\ ~isTraining

\* every sample of input tensor X has rows of width w
FeatureWidthIs(X, w) ==
    \A t \in DOMAIN X.data : \A r \in DOMAIN X.data[t].x :
        Len(X.data[t].x[r]) = w

\* every row of label tensor y has width w
LabelWidthIs(y, w) == \A t \in DOMAIN y.data : Len(y.data[t].y) = w

(* C23: after any sequence of file loads, failed ones included, whenever   *)
(* training can be started the four tensors fit the dataset now loaded:    *)
(* their feature width is 2 x symbols.length and their label width         *)
(* 3 x symbols.length.  A reload whose createSequences throws has already  *)
(* replaced symbols and leaves the tensors of the file before it, with     *)
(* the Train button still enabled.                                         *)
C23_TensorsOfLoadedDataset ==
    (TrainCanStart /\ ~X_train.isNull) =>
        /\ FeatureWidthIs(X_train, 2 * Len(symbols))
        /\ FeatureWidthIs(X_test, 2 * Len(symbols))
        /\ LabelWidthIs(y_train, 3 * Len(symbols))
        /\ LabelWidthIs(y_test, 3 * Len(symbols))

=============================================================================
